---- MODULE Spec2Model ----
(***************************************************************************)
(* The in-memory conversation model of siggo (model/model.go): contacts,   *)
(* conversations and messages, the receive / receipt / send paths and the  *)
(* text rendering.                                                         *)
(*                                                                         *)
(* Go pointers are modelled as indices into a heap: mem.Contact holds the  *)
(* Contact objects and mem.Conversation the Conversation objects, so that  *)
(* two Contact objects with the same number are two different map keys, as *)
(* they are for Go's map[*Contact]*Conversation.  A *Message is referenced *)
(* from exactly one Messages map slot, so it is stored in the slot.        *)
(***************************************************************************)
EXTENDS Integers, Sequences, FiniteSets, TLC

VARIABLES s, mem, last, nEvents, added, th, crashed

vars == <<s, mem, last, nEvents, added, th, crashed>>

(***************************************************************************)
(* Bounds and input sets                                                   *)
(***************************************************************************)
\* events (calls of Send, onReceived, onReceipt, AddMessage) in one run
MaxEvents == 3

\* length of a receipt's timestamp list
MaxReceiptLen == 2

UserName == "alice"

UserNumber == "+1000"

Numbers == {UserNumber, "+1555"}

Contents == {"hi", "hello"}

Timestamps == {100, 999}

Nil == "nil"

SendErrors == {Nil, "send failed"}

BoundedSeq(S, n) == UNION {[1..k -> S] : k \in 0..n}

\* msg.Envelope of a "message received" event
ReceivedMessages ==
    { [Envelope |-> [Source |-> n,
                     DataMessage |-> [Message |-> t, Timestamp |-> ts]]]
        : n \in Numbers, t \in Contents, ts \in Timestamps }

\* msg.Envelope of a "receipt received" event
ReceiptMessages ==
    { [Envelope |-> [Source |-> n,
                     ReceiptMessage |-> [IsDelivery |-> d, IsRead |-> r,
                                         Timestamps |-> tss]]]
        : n \in Numbers, d \in BOOLEAN, r \in BOOLEAN,
          tss \in BoundedSeq(Timestamps, MaxReceiptLen) }

(***************************************************************************)
(* Message and Conversation                                                *)
(***************************************************************************)
\* the delivery glyphs with the read glyph for a delivered Message
DeliveryStatus_readGlyph == [b \in BOOLEAN |-> IF b THEN ">" ELSE "?"]

DeliveryStatus == [b \in BOOLEAN |-> IF b THEN "<" ELSE "?"]

ReadStatus == [b \in BOOLEAN |-> IF b THEN ">" ELSE "?"]

Message_String(m) ==
    ToString(m.Timestamp) \o "|" \o DeliveryStatus[m.IsDelivered]
        \o ReadStatus[m.IsRead] \o " " \o m.From \o ": " \o m.Content \o "\n"

RECURSIVE ConcatLines(_, _)
ConcatLines(c, order) ==
    IF order = <<>> THEN ""
    ELSE Message_String(c.Messages[Head(order)]) \o ConcatLines(c, Tail(order))

\* the loop of Conversation.String prepending each line to out
RECURSIVE ConcatLines_prepend(_, _)
ConcatLines_prepend(c, order) ==
    IF order = <<>> THEN ""
    ELSE ConcatLines_prepend(c, Tail(order)) \o Message_String(c.Messages[Head(order)])

Conversation_String_prepend(c) == ConcatLines_prepend(c, c.MessageOrder)

Conversation_String(c) == ConcatLines(c, c.MessageOrder)

\* a Go map: a function whose domain is the set of keys present
EmptyMap == [k \in {} |-> 0]

MapPut(m, k, v) == [x \in (DOMAIN m) \cup {k} |-> IF x = k THEN v ELSE m[x]]

NewConversation(contact) ==
    [Contact |-> contact, Messages |-> EmptyMap, MessageOrder |-> <<>>,
     HasNewMessage |-> FALSE]

\* AddMessage without the `if !ok`: the timestamp is appended on every call
AddMessage_alwaysAppend(c, message) ==
    [c EXCEPT !.Messages = MapPut(@, message.Timestamp, message),
              !.MessageOrder = Append(@, message.Timestamp),
              !.HasNewMessage = TRUE]

\* AddMessage that raises HasNewMessage on every call, also on an overwrite
AddMessage_alwaysFlag(c, message) ==
    LET ok == message.Timestamp \in DOMAIN c.Messages
        c1 == [c EXCEPT !.Messages = MapPut(@, message.Timestamp, message),
                        !.HasNewMessage = TRUE]
    IN  IF ~ok THEN [c1 EXCEPT !.MessageOrder = Append(@, message.Timestamp)]
        ELSE c1

\* AddMessage storing the Message under its index in MessageOrder
AddMessage_keyByIndex(c, message) ==
    LET ok == message.Timestamp \in DOMAIN c.Messages
        c1 == [c EXCEPT !.Messages = MapPut(@, Len(c.MessageOrder), message)]
    IN  IF ~ok
        THEN [c1 EXCEPT !.MessageOrder = Append(@, message.Timestamp),
                        !.HasNewMessage = TRUE]
        ELSE c1

\* AddMessage without `c.HasNewMessage = true`
AddMessage_noFlag(c, message) ==
    LET ok == message.Timestamp \in DOMAIN c.Messages
        c1 == [c EXCEPT !.Messages = MapPut(@, message.Timestamp, message)]
    IN  IF ~ok THEN [c1 EXCEPT !.MessageOrder = Append(@, message.Timestamp)]
        ELSE c1

\* AddMessage merging fields on an overwrite: the stored Message keeps its
\* IsDelivered and IsRead
AddMessage_keepStatus(c, message) ==
    LET ok == message.Timestamp \in DOMAIN c.Messages
    IN  IF ~ok
        THEN [c EXCEPT !.Messages = MapPut(@, message.Timestamp, message),
                       !.MessageOrder = Append(@, message.Timestamp),
                       !.HasNewMessage = TRUE]
        ELSE [c EXCEPT !.Messages[message.Timestamp] =
                 [message EXCEPT !.IsDelivered = c.Messages[message.Timestamp].IsDelivered,
                                 !.IsRead = c.Messages[message.Timestamp].IsRead]]

AddMessage(c, message) ==
    LET ok == message.Timestamp \in DOMAIN c.Messages
        c1 == [c EXCEPT !.Messages = MapPut(@, message.Timestamp, message)]
    IN  IF ~ok
        THEN [c1 EXCEPT !.MessageOrder = Append(@, message.Timestamp),
                        !.HasNewMessage = TRUE]
        ELSE c1

(***************************************************************************)
(* Siggo.  A world w is [s |-> the Siggo object, mem |-> the heap].        *)
(***************************************************************************)
World == [s |-> s, mem |-> mem]

\* allocate an object; its pointer is its index
Alloc(heap, obj) == Append(heap, obj)

newConversation(w, contact) ==
    LET conv == Len(w.mem.Conversation) + 1
    IN  [w |-> [s   |-> [w.s EXCEPT !.conversations = MapPut(@, contact, conv)],
                mem |-> [w.mem EXCEPT !.Conversation =
                                         Alloc(@, NewConversation(contact))]],
         conv |-> conv]

\* newContact without `s.contacts[number] = contact`
newContact_unregistered(w, number) ==
    LET contact == Len(w.mem.Contact) + 1
    IN  [w |-> [s   |-> w.s,
                mem |-> [w.mem EXCEPT !.Contact =
                                         Alloc(@, [Number |-> number, Name |-> ""])]],
         contact |-> contact]

newContact(w, number) ==
    LET contact == Len(w.mem.Contact) + 1
    IN  [w |-> [s   |-> [w.s EXCEPT !.contacts = MapPut(@, number, contact)],
                mem |-> [w.mem EXCEPT !.Contact =
                                         Alloc(@, [Number |-> number, Name |-> ""])]],
         contact |-> contact]

onSend(w, message, conv) == w

\* Send that calls signal.Send once more when it failed
Send_retry(w, msg, contact, sigErr) ==
    LET ok == contact \in DOMAIN w.s.conversations
        r  == IF ~ok THEN newConversation(w, contact)
              ELSE [w |-> w, conv |-> w.s.conversations[contact]]
        call == [number |-> r.w.mem.Contact[contact].Number, text |-> msg]
    IN  [w |-> r.w, conv |-> r.conv, ret |-> sigErr,
         transport |-> IF sigErr = Nil THEN <<call>> ELSE <<call, call>>,
         notified |-> <<>>]

\* sigErr is what signal.Send returns for this call
Send(w, msg, contact, sigErr) ==
    LET ok == contact \in DOMAIN w.s.conversations
        r  == IF ~ok THEN newConversation(w, contact)
              ELSE [w |-> w, conv |-> w.s.conversations[contact]]
        message == [Content |-> msg, From |-> w.s.config.UserName, Timestamp |-> 0,
                    IsDelivered |-> FALSE, IsRead |-> FALSE]
        w2 == onSend(r.w, message, r.conv)
    IN  [w |-> w2, conv |-> r.conv, ret |-> sigErr,
         transport |-> <<[number |-> w2.mem.Contact[contact].Number, text |-> msg]>>,
         notified |-> <<>>]

\* onReceived building the Message with IsRead: true
onReceived_read(w, msg) ==
    LET receiveMsg == msg.Envelope.DataMessage
        contactNumber == msg.Envelope.Source
        ok == contactNumber \in DOMAIN w.s.contacts
        r1 == IF ~ok THEN newContact(w, contactNumber)
              ELSE [w |-> w, contact |-> w.s.contacts[contactNumber]]
        c  == r1.contact
        fromStr == IF r1.w.mem.Contact[c].Name = "" THEN contactNumber
                   ELSE r1.w.mem.Contact[c].Name
        message == [Content |-> receiveMsg.Message, From |-> fromStr,
                    Timestamp |-> receiveMsg.Timestamp,
                    IsDelivered |-> TRUE, IsRead |-> TRUE]
        r2 == IF c \notin DOMAIN r1.w.s.conversations THEN newConversation(r1.w, c)
              ELSE [w |-> r1.w, conv |-> r1.w.s.conversations[c]]
        conv == r2.conv
        w3 == [r2.w EXCEPT !.mem.Conversation[conv] = AddMessage(@, message)]
    IN  [w |-> w3, conv |-> conv, ret |-> Nil, transport |-> <<>>,
         notified |-> <<[conv |-> conv, seen |-> w3.mem.Conversation[conv]]>>]

\* onReceived with the sender's number as From whatever the Contact's name
onReceived_fromNumber(w, msg) ==
    LET receiveMsg == msg.Envelope.DataMessage
        contactNumber == msg.Envelope.Source
        ok == contactNumber \in DOMAIN w.s.contacts
        r1 == IF ~ok THEN newContact(w, contactNumber)
              ELSE [w |-> w, contact |-> w.s.contacts[contactNumber]]
        c  == r1.contact
        message == [Content |-> receiveMsg.Message, From |-> contactNumber,
                    Timestamp |-> receiveMsg.Timestamp,
                    IsDelivered |-> TRUE, IsRead |-> FALSE]
        r2 == IF c \notin DOMAIN r1.w.s.conversations THEN newConversation(r1.w, c)
              ELSE [w |-> r1.w, conv |-> r1.w.s.conversations[c]]
        conv == r2.conv
        w3 == [r2.w EXCEPT !.mem.Conversation[conv] = AddMessage(@, message)]
    IN  [w |-> w3, conv |-> conv, ret |-> Nil, transport |-> <<>>,
         notified |-> <<[conv |-> conv, seen |-> w3.mem.Conversation[conv]]>>]

\* onReceived calling s.NewInfo(conv) before conv.AddMessage(message)
onReceived_notifyFirst(w, msg) ==
    LET receiveMsg == msg.Envelope.DataMessage
        contactNumber == msg.Envelope.Source
        ok == contactNumber \in DOMAIN w.s.contacts
        r1 == IF ~ok THEN newContact(w, contactNumber)
              ELSE [w |-> w, contact |-> w.s.contacts[contactNumber]]
        c  == r1.contact
        fromStr == IF r1.w.mem.Contact[c].Name = "" THEN contactNumber
                   ELSE r1.w.mem.Contact[c].Name
        message == [Content |-> receiveMsg.Message, From |-> fromStr,
                    Timestamp |-> receiveMsg.Timestamp,
                    IsDelivered |-> TRUE, IsRead |-> FALSE]
        r2 == IF c \notin DOMAIN r1.w.s.conversations THEN newConversation(r1.w, c)
              ELSE [w |-> r1.w, conv |-> r1.w.s.conversations[c]]
        conv == r2.conv
        w3 == [r2.w EXCEPT !.mem.Conversation[conv] = AddMessage(@, message)]
    IN  [w |-> w3, conv |-> conv, ret |-> Nil, transport |-> <<>>,
         notified |-> <<[conv |-> conv, seen |-> r2.w.mem.Conversation[conv]]>>]

onReceived(w, msg) ==
    LET receiveMsg == msg.Envelope.DataMessage
        contactNumber == msg.Envelope.Source
        ok == contactNumber \in DOMAIN w.s.contacts
        r1 == IF ~ok
              THEN LET c == Len(w.mem.Contact) + 1
                   IN  [w |-> [s   |-> [w.s EXCEPT !.contacts =
                                                      MapPut(@, contactNumber, c)],
                               mem |-> [w.mem EXCEPT !.Contact =
                                          Alloc(@, [Number |-> contactNumber,
                                                    Name |-> ""])]],
                        contact |-> c]
              ELSE [w |-> w, contact |-> w.s.contacts[contactNumber]]
        c  == r1.contact
        fromStr == IF ~ok THEN contactNumber
                   ELSE IF r1.w.mem.Contact[c].Name = "" THEN contactNumber
                   ELSE r1.w.mem.Contact[c].Name
        message == [Content |-> receiveMsg.Message, From |-> fromStr,
                    Timestamp |-> receiveMsg.Timestamp,
                    IsDelivered |-> TRUE, IsRead |-> FALSE]
        r2 == IF c \notin DOMAIN r1.w.s.conversations THEN newConversation(r1.w, c)
              ELSE [w |-> r1.w, conv |-> r1.w.s.conversations[c]]
        conv == r2.conv
        w3 == [r2.w EXCEPT !.mem.Conversation[conv] = AddMessage(@, message)]
    IN  [w |-> w3, conv |-> conv, ret |-> Nil, transport |-> <<>>,
         notified |-> <<[conv |-> conv, seen |-> w3.mem.Conversation[conv]]>>]

\* the receipt loop setting the flags of every Message of the Conversation
\* as soon as one listed timestamp is present
RECURSIVE ApplyReceipt_everyMessage(_, _, _)
ApplyReceipt_everyMessage(conv, timestamps, receiptMsg) ==
    IF timestamps = <<>> THEN conv
    ELSE LET ts == Head(timestamps)
             ok == ts \in DOMAIN conv.Messages
             next == IF ~ok THEN conv
                     ELSE [conv EXCEPT !.Messages =
                             [k \in DOMAIN @ |->
                                [@[k] EXCEPT !.IsDelivered = receiptMsg.IsDelivery,
                                             !.IsRead = receiptMsg.IsRead]]]
         IN  ApplyReceipt_everyMessage(next, Tail(timestamps), receiptMsg)

\* the receipt loop with `break` for `continue`: it stops at the first
\* timestamp that is absent
RECURSIVE ApplyReceipt_break(_, _, _)
ApplyReceipt_break(conv, timestamps, receiptMsg) ==
    IF timestamps = <<>> THEN conv
    ELSE LET ts == Head(timestamps)
             ok == ts \in DOMAIN conv.Messages
         IN  IF ~ok THEN conv
             ELSE ApplyReceipt_break(
                      [conv EXCEPT
                         !.Messages[ts].IsDelivered = receiptMsg.IsDelivery,
                         !.Messages[ts].IsRead = receiptMsg.IsRead],
                      Tail(timestamps), receiptMsg)

\* the loop over receiptMsg.Timestamps, on one Conversation
RECURSIVE ApplyReceipt(_, _, _)
ApplyReceipt(conv, timestamps, receiptMsg) ==
    IF timestamps = <<>> THEN conv
    ELSE LET ts == Head(timestamps)
             ok == ts \in DOMAIN conv.Messages
             next == IF ~ok THEN conv
                     ELSE [conv EXCEPT
                             !.Messages[ts].IsDelivered = receiptMsg.IsDelivery,
                             !.Messages[ts].IsRead = receiptMsg.IsRead]
         IN  ApplyReceipt(next, Tail(timestamps), receiptMsg)

\* onReceipt ending with s.NewInfo(conv), as onReceived does
onReceipt_notify(w, msg) ==
    LET receiptMsg == msg.Envelope.ReceiptMessage
        contactNumber == msg.Envelope.Source
        r1 == IF contactNumber \notin DOMAIN w.s.contacts
              THEN newContact(w, contactNumber)
              ELSE [w |-> w, contact |-> w.s.contacts[contactNumber]]
        c  == r1.contact
        r2 == IF c \notin DOMAIN r1.w.s.conversations THEN newConversation(r1.w, c)
              ELSE [w |-> r1.w, conv |-> r1.w.s.conversations[c]]
        conv == r2.conv
        w3 == [r2.w EXCEPT !.mem.Conversation[conv] =
                              ApplyReceipt(@, receiptMsg.Timestamps, receiptMsg)]
    IN  [w |-> w3, conv |-> conv, ret |-> Nil, transport |-> <<>>,
         notified |-> <<[conv |-> conv, seen |-> w3.mem.Conversation[conv]]>>]

onReceipt(w, msg) ==
    LET receiptMsg == msg.Envelope.ReceiptMessage
        contactNumber == msg.Envelope.Source
        r1 == IF contactNumber \notin DOMAIN w.s.contacts
              THEN newContact(w, contactNumber)
              ELSE [w |-> w, contact |-> w.s.contacts[contactNumber]]
        c  == r1.contact
        r2 == IF c \notin DOMAIN r1.w.s.conversations THEN newConversation(r1.w, c)
              ELSE [w |-> r1.w, conv |-> r1.w.s.conversations[c]]
        conv == r2.conv
        w3 == [r2.w EXCEPT !.mem.Conversation[conv] =
                              ApplyReceipt(@, receiptMsg.Timestamps, receiptMsg)]
    IN  [w |-> w3, conv |-> conv, ret |-> Nil, transport |-> <<>>, notified |-> <<>>]

GetContacts(userNumber) ==
    [list |-> (userNumber :> 1),
     heap |-> <<[Number |-> userNumber, Name |-> "me"]>>]

\* one Conversation per Contact of the list; pointer i is Contact i's
\* GetConversations returning the empty registry
GetConversations_none(userNumber, contacts) ==
    [conversations |-> EmptyMap, heap |-> <<>>]

GetConversations(userNumber, contacts) ==
    [conversations |-> [c \in {contacts.list[n] : n \in DOMAIN contacts.list} |-> c],
     heap |-> [c \in 1..Len(contacts.heap) |-> NewConversation(c)]]

NewSiggo(config) ==
    LET contacts == GetContacts(config.UserNumber)
        conversations == GetConversations(config.UserNumber, contacts)
    IN  [s   |-> [config |-> config, contacts |-> contacts.list,
                  conversations |-> conversations.conversations],
         mem |-> [Contact |-> contacts.heap, Conversation |-> conversations.heap]]

Config == [UserName |-> UserName, UserNumber |-> UserNumber]

(***************************************************************************)
(* The state machine: one action per call, each call run to completion.    *)
(***************************************************************************)
\* last: the call that ran last: its name and arguments, the Conversation it
\* resolved, what it returned, its calls of signal.Send (and what signal.Send
\* returned), and its calls of NewInfo
NoEvent ==
    [op |-> "none", msg |-> Nil, contact |-> 0, conv |-> 0, ret |-> Nil,
     sigErr |-> Nil, transport |-> <<>>, notified |-> <<>>]

\* th[t]: a goroutine running one call statement by statement: its position
\* (pc, named after the source line it is about to run) and its locals
Idle ==
    [pc |-> "idle", op |-> "none", msg |-> Nil, contact |-> 0, c |-> 0,
     conv |-> 0, ok |-> FALSE, message |-> Nil, i |-> 0, order |-> <<>>,
     detached |-> FALSE]

Threads == {1, 2}

Init ==
    /\ s = NewSiggo(Config).s
    /\ mem = NewSiggo(Config).mem
    /\ last = NoEvent
    /\ nEvents = 0
    /\ added = [c \in 1..Len(NewSiggo(Config).mem.Conversation) |-> <<>>]
    /\ th = [t \in Threads |-> Idle]
    /\ crashed = FALSE

\* the history of AddMessage calls: added[conv] lists the timestamps passed
\* to AddMessage on Conversation conv, extended to the Conversations of w
Extend(hist, w) ==
    [c \in 1..Len(w.mem.Conversation) |-> IF c \in DOMAIN hist THEN hist[c] ELSE <<>>]

Finish(r, op, msg, contact, sigErr) ==
    /\ s' = r.w.s
    /\ mem' = r.w.mem
    /\ last' = [op |-> op, msg |-> msg, contact |-> contact, conv |-> r.conv,
                ret |-> r.ret, sigErr |-> sigErr, transport |-> r.transport,
                notified |-> r.notified]
    /\ nEvents' = nEvents + 1
    /\ UNCHANGED <<th, crashed>>

\* the Contact values a caller of Send can hold: a Contact of the model (read
\* from Contacts() or Conversations()), or one it constructs for a number
SendEv ==
    /\ nEvents < MaxEvents
    /\ \E msg \in Contents, sigErr \in SendErrors :
         \/ \E contact \in 1..Len(mem.Contact) :
              /\ Finish(Send(World, msg, contact, sigErr), "Send", msg, contact, sigErr)
              /\ added' = Extend(added, Send(World, msg, contact, sigErr).w)
         \/ \E number \in Numbers :
              LET contact == Len(mem.Contact) + 1
                  w == [World EXCEPT !.mem.Contact =
                                        Alloc(@, [Number |-> number, Name |-> ""])]
              IN  /\ Finish(Send(w, msg, contact, sigErr), "Send", msg, contact, sigErr)
                  /\ added' = Extend(added, Send(w, msg, contact, sigErr).w)

onReceivedEv ==
    /\ nEvents < MaxEvents
    /\ \E msg \in ReceivedMessages :
         LET r == onReceived(World, msg)
         IN  /\ Finish(r, "onReceived", msg, 0, Nil)
             /\ added' = [Extend(added, r.w) EXCEPT
                            ![r.conv] = Append(@, msg.Envelope.DataMessage.Timestamp)]

onReceiptEv ==
    /\ nEvents < MaxEvents
    /\ \E msg \in ReceiptMessages :
         LET r == onReceipt(World, msg)
         IN  /\ Finish(r, "onReceipt", msg, 0, Nil)
             /\ added' = Extend(added, r.w)

Next == SendEv \/ onReceivedEv \/ onReceiptEv

Spec == Init /\ [][Next]_vars

(***************************************************************************)
(* The exported Conversation API used directly: a holder of a Conversation *)
(* (from Conversations()) calls AddMessage with a Message it built, and    *)
(* clears the exported HasNewMessage field once it has shown the messages, *)
(* while onReceived goes on adding the messages that arrive.               *)
(***************************************************************************)
CallerMessages ==
    [Content : Contents, From : {UserName}, Timestamp : Timestamps,
     IsDelivered : BOOLEAN, IsRead : BOOLEAN]

AddMessageEv ==
    /\ nEvents < MaxEvents
    /\ \E c \in 1..Len(mem.Conversation), message \in CallerMessages :
         LET w == [World EXCEPT !.mem.Conversation[c] = AddMessage(@, message)]
         IN  /\ Finish([w |-> w, conv |-> c, ret |-> Nil, transport |-> <<>>,
                        notified |-> <<>>], "AddMessage", message, 0, Nil)
             /\ added' = [added EXCEPT ![c] = Append(@, message.Timestamp)]

ClearHasNewMessage ==
    /\ nEvents < MaxEvents
    /\ \E c \in 1..Len(mem.Conversation) :
         /\ mem.Conversation[c].HasNewMessage
         /\ LET w == [World EXCEPT !.mem.Conversation[c].HasNewMessage = FALSE]
            IN  Finish([w |-> w, conv |-> c, ret |-> Nil, transport |-> <<>>,
                        notified |-> <<>>], "ClearHasNewMessage", Nil, 0, Nil)
         /\ UNCHANGED added

NextAPI == onReceivedEv \/ AddMessageEv \/ ClearHasNewMessage

SpecAPI == Init /\ [][NextAPI]_vars

(***************************************************************************)
(* Concurrent callers.  The transport delivers "received" and "receipt"    *)
(* events on its own goroutines while the user calls Send; model.go takes  *)
(* no lock, so the calls interleave between their accesses to the shared   *)
(* maps and objects.  Each goroutine runs one call; a step is one access   *)
(* to shared memory together with the local computation up to the next.    *)
(* Two goroutines about to access the same Go map, one of them writing,    *)
(* race: the accesses take effect in either order, or the runtime detects  *)
(* the race and ends the process ("fatal error: concurrent map writes").   *)
(* A goroutine holds a *Message between lines 200 and 207: when another    *)
(* goroutine stores a new Message under that timestamp meanwhile, the      *)
(* pointer held is detached from the map and writes through it are lost.   *)
(***************************************************************************)
Goto(t, pc) == [th EXCEPT ![t].pc = pc]

Quiet == UNCHANGED <<last, nEvents, added, crashed>>

At(t, pc) == ~crashed /\ th[t].pc = pc

StartReceived(t) ==
    /\ At(t, "idle")
    /\ \E msg \in ReceivedMessages :
         th' = [th EXCEPT ![t] = [Idle EXCEPT !.pc = "R146", !.op = "onReceived",
                                              !.msg = msg]]
    /\ UNCHANGED <<s, mem>> /\ Quiet

StartReceipt(t) ==
    /\ At(t, "idle")
    /\ \E msg \in ReceiptMessages :
         th' = [th EXCEPT ![t] = [Idle EXCEPT !.pc = "P191", !.op = "onReceipt",
                                              !.msg = msg, !.i = 1]]
    /\ UNCHANGED <<s, mem>> /\ Quiet

\* Send on the Contact the model was constructed with
StartSend(t) ==
    /\ At(t, "idle")
    /\ \E msg \in Contents :
         th' = [th EXCEPT ![t] = [Idle EXCEPT !.pc = "S102", !.op = "Send",
                                              !.msg = msg, !.contact = 1]]
    /\ UNCHANGED <<s, mem>> /\ Quiet

\* Send on a Contact the caller constructs for a number
StartSendNew(t) ==
    /\ At(t, "idle")
    /\ \E msg \in Contents, number \in Numbers :
         /\ th' = [th EXCEPT ![t] = [Idle EXCEPT !.pc = "S102", !.op = "Send",
                                                 !.msg = msg, !.c = 0,
                                                 !.contact = Len(mem.Contact) + 1]]
         /\ mem' = [mem EXCEPT !.Contact = Alloc(@, [Number |-> number, Name |-> ""])]
    /\ UNCHANGED s /\ Quiet

\* onReceived, line 146: c, ok := s.contacts[contactNumber]; lines 158-169
R146(t) ==
    /\ At(t, "R146")
    /\ LET contactNumber == th[t].msg.Envelope.Source
           receiveMsg == th[t].msg.Envelope.DataMessage
           ok == contactNumber \in DOMAIN s.contacts
           c == s.contacts[contactNumber]
       IN  th' = IF ok
                 THEN [th EXCEPT ![t].pc = "R170", ![t].c = c,
                         ![t].message =
                            [Content |-> receiveMsg.Message,
                             From |-> IF mem.Contact[c].Name = "" THEN contactNumber
                                      ELSE mem.Contact[c].Name,
                             Timestamp |-> receiveMsg.Timestamp,
                             IsDelivered |-> TRUE, IsRead |-> FALSE]]
                 ELSE Goto(t, "R157")
    /\ UNCHANGED <<s, mem>> /\ Quiet

\* onReceived, lines 152-157 and 163-169: the new Contact is stored
R157(t) ==
    /\ At(t, "R157")
    /\ LET contactNumber == th[t].msg.Envelope.Source
           receiveMsg == th[t].msg.Envelope.DataMessage
           c == Len(mem.Contact) + 1
       IN  /\ mem' = [mem EXCEPT !.Contact =
                                    Alloc(@, [Number |-> contactNumber, Name |-> ""])]
           /\ s' = [s EXCEPT !.contacts = MapPut(@, contactNumber, c)]
           /\ th' = [th EXCEPT ![t].pc = "R170", ![t].c = c,
                       ![t].message =
                          [Content |-> receiveMsg.Message, From |-> contactNumber,
                           Timestamp |-> receiveMsg.Timestamp,
                           IsDelivered |-> TRUE, IsRead |-> FALSE]]
    /\ Quiet

\* lines 170, 195, 102: conv, ok := s.conversations[c]
LookupConversation(t, pc, c, found, absent) ==
    /\ At(t, pc)
    /\ th' = IF c \in DOMAIN s.conversations
             THEN [th EXCEPT ![t].pc = found, ![t].conv = s.conversations[c]]
             ELSE Goto(t, absent)
    /\ UNCHANGED <<s, mem>> /\ Quiet

\* lines 173, 197, 104: conv = s.newConversation(c)
StoreConversation(t, pc, c, next) ==
    /\ At(t, pc)
    /\ LET r == newConversation(World, c)
       IN  /\ s' = r.w.s
           /\ mem' = r.w.mem
           /\ th' = [th EXCEPT ![t].pc = next, ![t].conv = r.conv]
    /\ Quiet

R170(t) == LookupConversation(t, "R170", th[t].c, "A64", "R173")

R173(t) == StoreConversation(t, "R173", th[t].c, "A64")

\* AddMessage, line 64: _, ok := c.Messages[message.Timestamp]
A64(t) ==
    /\ At(t, "A64")
    /\ th' = [th EXCEPT ![t].pc = "A65",
                ![t].ok = th[t].message.Timestamp
                             \in DOMAIN mem.Conversation[th[t].conv].Messages]
    /\ UNCHANGED <<s, mem>> /\ Quiet

\* AddMessage, line 65: c.Messages[message.Timestamp] = message
A65(t) ==
    /\ At(t, "A65")
    /\ mem' = [mem EXCEPT !.Conversation[th[t].conv].Messages =
                             MapPut(@, th[t].message.Timestamp, th[t].message)]
    /\ th' = [u \in Threads |->
                IF u = t THEN [th[t] EXCEPT !.pc = IF th[t].ok THEN "R176" ELSE "A68"]
                ELSE IF /\ th[u].pc \in {"P206", "P207"}
                        /\ th[u].conv = th[t].conv
                        /\ th[u].msg.Envelope.ReceiptMessage.Timestamps[th[u].i]
                             = th[t].message.Timestamp
                     THEN [th[u] EXCEPT !.detached = TRUE]
                     ELSE th[u]]
    /\ UNCHANGED s /\ Quiet

\* AddMessage, line 68: the read of c.MessageOrder for append
A68(t) ==
    /\ At(t, "A68")
    /\ th' = [th EXCEPT ![t].pc = "A68w",
                        ![t].order = mem.Conversation[th[t].conv].MessageOrder]
    /\ UNCHANGED <<s, mem>> /\ Quiet

\* AddMessage, lines 68-69: the write of c.MessageOrder, and HasNewMessage
A68w(t) ==
    /\ At(t, "A68w")
    /\ mem' = [mem EXCEPT !.Conversation[th[t].conv] =
                 [@ EXCEPT !.MessageOrder = Append(th[t].order, th[t].message.Timestamp),
                           !.HasNewMessage = TRUE]]
    /\ th' = Goto(t, "R176")
    /\ UNCHANGED s /\ Quiet

\* onReceived, lines 176-177: s.NewInfo(conv); return nil
R176(t) ==
    /\ At(t, "R176")
    /\ th' = Goto(t, "done")
    /\ UNCHANGED <<s, mem>> /\ Quiet

\* onReceipt, line 191: c, ok := s.contacts[contactNumber]
P191(t) ==
    /\ At(t, "P191")
    /\ LET contactNumber == th[t].msg.Envelope.Source
       IN  th' = IF contactNumber \in DOMAIN s.contacts
                 THEN [th EXCEPT ![t].pc = "P195", ![t].c = s.contacts[contactNumber]]
                 ELSE Goto(t, "P193")
    /\ UNCHANGED <<s, mem>> /\ Quiet

\* onReceipt, line 193: c = s.newContact(contactNumber)
P193(t) ==
    /\ At(t, "P193")
    /\ LET r == newContact(World, th[t].msg.Envelope.Source)
       IN  /\ s' = r.w.s
           /\ mem' = r.w.mem
           /\ th' = [th EXCEPT ![t].pc = "P195", ![t].c = r.contact]
    /\ Quiet

P195(t) == LookupConversation(t, "P195", th[t].c, "P199", "P197")

P197(t) == StoreConversation(t, "P197", th[t].c, "P199")

\* onReceipt, lines 199-205: the next timestamp; message, ok := conv.Messages[ts]
P199(t) ==
    /\ At(t, "P199")
    /\ LET timestamps == th[t].msg.Envelope.ReceiptMessage.Timestamps
       IN  th' = IF th[t].i > Len(timestamps) THEN Goto(t, "done")
                 ELSE IF timestamps[th[t].i]
                            \in DOMAIN mem.Conversation[th[t].conv].Messages
                      THEN [th EXCEPT ![t].pc = "P206", ![t].detached = FALSE]
                      ELSE [th EXCEPT ![t].i = @ + 1]
    /\ UNCHANGED <<s, mem>> /\ Quiet

\* a write of one field through the *Message of line 200
WriteMessageField(t, message) ==
    IF th[t].detached THEN mem
    ELSE [mem EXCEPT !.Conversation[th[t].conv].Messages[
                        th[t].msg.Envelope.ReceiptMessage.Timestamps[th[t].i]] = message]

HeldMessage(t) ==
    mem.Conversation[th[t].conv].Messages[
        th[t].msg.Envelope.ReceiptMessage.Timestamps[th[t].i]]

\* onReceipt, line 206: message.IsDelivered = receiptMsg.IsDelivery
P206(t) ==
    /\ At(t, "P206")
    /\ mem' = WriteMessageField(t,
                 [HeldMessage(t) EXCEPT !.IsDelivered =
                     th[t].msg.Envelope.ReceiptMessage.IsDelivery])
    /\ th' = Goto(t, "P207")
    /\ UNCHANGED s /\ Quiet

\* onReceipt, line 207: message.IsRead = receiptMsg.IsRead
P207(t) ==
    /\ At(t, "P207")
    /\ mem' = WriteMessageField(t,
                 [HeldMessage(t) EXCEPT !.IsRead =
                     th[t].msg.Envelope.ReceiptMessage.IsRead])
    /\ th' = [th EXCEPT ![t].pc = "P199", ![t].i = @ + 1]
    /\ UNCHANGED s /\ Quiet

S102(t) == LookupConversation(t, "S102", th[t].contact, "S116", "S104")

S104(t) == StoreConversation(t, "S104", th[t].contact, "S116")

\* Send, lines 106-116: the Message, onSend, signal.Send
S116(t) ==
    /\ At(t, "S116")
    /\ th' = Goto(t, "done")
    /\ UNCHANGED <<s, mem>> /\ Quiet

\* the Go map a goroutine's next step reads or writes
MapRead(t) ==
    CASE th[t].pc \in {"R146", "P191"} -> <<"contacts", 0>>
      [] th[t].pc \in {"R170", "P195", "S102"} -> <<"conversations", 0>>
      [] th[t].pc \in {"A64", "P199"} -> <<"Messages", th[t].conv>>
      [] OTHER -> <<"none", 0>>

MapWritten(t) ==
    CASE th[t].pc \in {"R157", "P193"} -> <<"contacts", 0>>
      [] th[t].pc \in {"R173", "P197", "S104"} -> <<"conversations", 0>>
      [] th[t].pc = "A65" -> <<"Messages", th[t].conv>>
      [] OTHER -> <<"none", 0>>

\* the runtime's check for concurrent map access ends the process
Fatal(t) ==
    /\ ~crashed
    /\ MapWritten(t)[1] # "none"
    /\ \E u \in Threads \ {t} : MapWritten(t) \in {MapRead(u), MapWritten(u)}
    /\ crashed' = TRUE
    /\ UNCHANGED <<s, mem, th, last, nEvents, added>>

NextConc ==
    \E t \in Threads :
        \/ StartReceived(t) \/ StartReceipt(t) \/ StartSend(t) \/ StartSendNew(t)
        \/ R146(t) \/ R157(t) \/ R170(t) \/ R173(t)
        \/ A64(t) \/ A65(t) \/ A68(t) \/ A68w(t) \/ R176(t)
        \/ P191(t) \/ P193(t) \/ P195(t) \/ P197(t) \/ P199(t) \/ P206(t) \/ P207(t)
        \/ S102(t) \/ S104(t) \/ S116(t)
        \/ Fatal(t)

SpecConc == Init /\ [][NextConc]_vars

(***************************************************************************)
(* Properties                                                              *)
(***************************************************************************)
\* a step that is one call of op
Call(op) == nEvents' = nEvents + 1 /\ last'.op = op

Range(seq) == {seq[i] : i \in 1..Len(seq)}

\* the distinct elements of seq, in the order of their first occurrence
RECURSIVE FirstOccurrences(_)
FirstOccurrences(seq) ==
    IF seq = <<>> THEN <<>>
    ELSE LET front == FirstOccurrences(SubSeq(seq, 1, Len(seq) - 1))
             x == seq[Len(seq)]
         IN  IF x \in Range(front) THEN front ELSE Append(front, x)

\* C1: after any sequence of AddMessage calls (direct or through onReceived)
\* on a Conversation, MessageOrder has no duplicate, is as long as the number
\* of distinct timestamps inserted, lists exactly the keys of Messages, and
\* lists them in the order of their first insertion.
C1_OrderIsFirstInsertionOrder ==
    \A c \in 1..Len(mem.Conversation) :
        LET conv == mem.Conversation[c]
            order == conv.MessageOrder
        IN  /\ \A i, j \in 1..Len(order) : order[i] = order[j] => i = j
            /\ Len(order) = Cardinality(Range(added[c]))
            /\ Range(order) = DOMAIN conv.Messages
            /\ order = FirstOccurrences(added[c])

\* a Conversation that got 999, then 100, then 100 again: its order is the
\* insertion order, which is not the sorted one
C1_Witness ==
    \E c \in 1..Len(mem.Conversation) :
        /\ added[c] = <<999, 100, 100>>
        /\ mem.Conversation[c].MessageOrder = <<999, 100>>

\* C2: AddMessage(m) on a timestamp already stored replaces the stored
\* Message by m as a whole and leaves MessageOrder and HasNewMessage as they
\* were; on a new timestamp it stores m, appends the timestamp to
\* MessageOrder and sets HasNewMessage.  No other Message changes.
C2_AddMessageEffect ==
    [][ Call("AddMessage") =>
          LET m == last'.msg
              ts == m.Timestamp
              old == mem.Conversation[last'.conv]
              new == mem'.Conversation[last'.conv]
          IN  /\ new.Messages[ts] = m
              /\ DOMAIN new.Messages = DOMAIN old.Messages \cup {ts}
              /\ \A k \in DOMAIN old.Messages \ {ts} : new.Messages[k] = old.Messages[k]
              /\ new.Contact = old.Contact
              /\ IF ts \in DOMAIN old.Messages
                 THEN /\ new.MessageOrder = old.MessageOrder
                      /\ new.HasNewMessage = old.HasNewMessage
                 ELSE /\ new.MessageOrder = Append(old.MessageOrder, ts)
                      /\ new.HasNewMessage = TRUE ]_vars

\* an overwrite happened on a Conversation whose flag had been cleared: the
\* stored Message is the new one and the flag is still down
C2_Witness ==
    /\ last.op = "AddMessage"
    /\ LET conv == mem.Conversation[last.conv]
       IN  /\ Len(added[last.conv]) = 2
           /\ Len(conv.MessageOrder) = 1
           /\ conv.Messages[last.msg.Timestamp] = last.msg
           /\ last.msg.IsRead /\ ~last.msg.IsDelivered
           /\ ~conv.HasNewMessage

\* C3: a Send has recorded a pending Message (from the local user, not
\* delivered, not read, with the text sent) in the contact's Conversation by
\* the time it returns, whether signal.Send succeeded or failed.
C3_SendRecordsPending ==
    last.op = "Send" =>
        \E ts \in DOMAIN mem.Conversation[last.conv].Messages :
            LET m == mem.Conversation[last.conv].Messages[ts]
            IN  /\ m.Content = last.msg
                /\ m.From = s.config.UserName
                /\ ~m.IsDelivered
                /\ ~m.IsRead

\* the Conversation a receipt step works on, before the step: the one the
\* sender had, or the empty one the step creates
ReceiptConvBefore ==
    IF last'.conv \in 1..Len(mem.Conversation) THEN mem.Conversation[last'.conv]
    ELSE NewConversation(mem'.Conversation[last'.conv].Contact)

ReceiptListed == Range(last'.msg.Envelope.ReceiptMessage.Timestamps)

\* C5: an onReceipt whose list names timestamps present in the sender's
\* Conversation sets IsDelivered and IsRead of the Messages it names to the
\* receipt's flags and changes nothing else: not their Content, From or
\* Timestamp, no Message it does not name, not MessageOrder, the key set or
\* HasNewMessage, no other Conversation, no Contact and no registry.
C5_ReceiptUpdatesOnlyNamed ==
    [][ (Call("onReceipt") /\ ReceiptListed \cap DOMAIN ReceiptConvBefore.Messages # {}) =>
          LET receiptMsg == last'.msg.Envelope.ReceiptMessage
              old == mem.Conversation[last'.conv]
              new == mem'.Conversation[last'.conv]
          IN  /\ \A ts \in ReceiptListed \cap DOMAIN old.Messages :
                    new.Messages[ts] =
                        [old.Messages[ts] EXCEPT !.IsDelivered = receiptMsg.IsDelivery,
                                                 !.IsRead = receiptMsg.IsRead]
              /\ \A ts \in DOMAIN old.Messages \ ReceiptListed :
                    new.Messages[ts] = old.Messages[ts]
              /\ DOMAIN new.Messages = DOMAIN old.Messages
              /\ new.MessageOrder = old.MessageOrder
              /\ new.HasNewMessage = old.HasNewMessage
              /\ new.Contact = old.Contact
              /\ Len(mem'.Conversation) = Len(mem.Conversation)
              /\ \A d \in 1..Len(mem.Conversation) :
                    d # last'.conv => mem'.Conversation[d] = mem.Conversation[d]
              /\ mem'.Contact = mem.Contact
              /\ s' = s ]_vars

\* a receipt naming 100 alone has marked it read and left 999, stored in the
\* same Conversation, unread
C5_Witness ==
    /\ last.op = "onReceipt"
    /\ last.msg.Envelope.ReceiptMessage.Timestamps = <<100>>
    /\ last.msg.Envelope.ReceiptMessage.IsRead
    /\ ~last.msg.Envelope.ReceiptMessage.IsDelivery
    /\ LET conv == mem.Conversation[last.conv]
       IN  /\ DOMAIN conv.Messages = {100, 999}
           /\ conv.Messages[100].IsRead /\ ~conv.Messages[100].IsDelivered
           /\ ~conv.Messages[999].IsRead /\ conv.Messages[999].IsDelivered

\* C6: an onReceipt returns no error; the timestamps it lists that are absent
\* from the sender's Conversation add nothing to Messages or MessageOrder;
\* when all of them are absent Messages is unchanged; and the present ones of
\* a mixed list are updated all the same.
C6_AbsentTimestampsSkipped ==
    [][ Call("onReceipt") =>
          LET receiptMsg == last'.msg.Envelope.ReceiptMessage
              old == ReceiptConvBefore
              new == mem'.Conversation[last'.conv]
          IN  /\ last'.ret = Nil
              /\ DOMAIN new.Messages = DOMAIN old.Messages
              /\ new.MessageOrder = old.MessageOrder
              /\ ReceiptListed \cap DOMAIN old.Messages = {} => new.Messages = old.Messages
              /\ \A ts \in ReceiptListed \cap DOMAIN old.Messages :
                    /\ new.Messages[ts].IsDelivered = receiptMsg.IsDelivery
                    /\ new.Messages[ts].IsRead = receiptMsg.IsRead ]_vars

\* a receipt listing the absent 999 before the present 100 has marked 100 read
C6_Witness ==
    /\ last.op = "onReceipt"
    /\ last.msg.Envelope.ReceiptMessage.Timestamps = <<999, 100>>
    /\ last.msg.Envelope.ReceiptMessage.IsRead
    /\ last.ret = Nil
    /\ LET conv == mem.Conversation[last.conv]
       IN  /\ conv.MessageOrder = <<100>>
           /\ DOMAIN conv.Messages = {100}
           /\ conv.Messages[100].IsRead

\* C7: an onReceived or onReceipt from a number the contact registry does not
\* hold adds one Contact (that number, empty name) to the contact registry
\* and one Conversation, keyed by that Contact, to the conversation registry,
\* changes no entry that was there, and returns no error.
C7_UnknownSenderRegistered ==
    [][ ((Call("onReceived") \/ Call("onReceipt"))
            /\ last'.msg.Envelope.Source \notin DOMAIN s.contacts) =>
          LET number == last'.msg.Envelope.Source
              c == s'.contacts[number]
          IN  /\ last'.ret = Nil
              /\ DOMAIN s'.contacts = DOMAIN s.contacts \cup {number}
              /\ \A n \in DOMAIN s.contacts : s'.contacts[n] = s.contacts[n]
              /\ Len(mem'.Contact) = Len(mem.Contact) + 1
              /\ c = Len(mem'.Contact)
              /\ mem'.Contact[c] = [Number |-> number, Name |-> ""]
              /\ \A k \in 1..Len(mem.Contact) : mem'.Contact[k] = mem.Contact[k]
              /\ DOMAIN s'.conversations = DOMAIN s.conversations \cup {c}
              /\ c \notin DOMAIN s.conversations
              /\ \A k \in DOMAIN s.conversations : s'.conversations[k] = s.conversations[k]
              /\ Len(mem'.Conversation) = Len(mem.Conversation) + 1
              /\ s'.conversations[c] = Len(mem'.Conversation)
              /\ mem'.Conversation[s'.conversations[c]].Contact = c
              /\ \A k \in 1..Len(mem.Conversation) :
                    mem'.Conversation[k] = mem.Conversation[k] ]_vars

\* a receipt from +1555 was the first event: +1555 is now the second Contact
\* and has the second Conversation, next to the local user's
C7_Witness ==
    /\ nEvents = 1
    /\ last.op = "onReceipt"
    /\ last.msg.Envelope.Source = "+1555"
    /\ DOMAIN s.contacts = {UserNumber, "+1555"}
    /\ mem.Contact[s.contacts["+1555"]] = [Number |-> "+1555", Name |-> ""]
    /\ s.conversations = (1 :> 1) @@ (2 :> 2)

\* C8: no two distinct Contact objects with the same number coexist in the
\* model: a Contact that keys the conversation registry is the Contact the
\* contact registry holds for its number.
C8_OneContactPerNumber ==
    \A c \in DOMAIN s.conversations :
        mem.Contact[c].Number \in DOMAIN s.contacts
            => s.contacts[mem.Contact[c].Number] = c

\* C9: Send calls signal.Send exactly once, with the Contact's number and the
\* text as given, and returns what that call returned.
C9_SendPropagatesTransportResult ==
    last.op = "Send" =>
        /\ last.transport =
              <<[number |-> mem.Contact[last.contact].Number, text |-> last.msg]>>
        /\ last.ret = last.sigErr

\* a Send to the local user's Contact whose signal.Send failed
C9_Witness ==
    /\ last.op = "Send"
    /\ last.contact = 1
    /\ last.sigErr = "send failed"
    /\ last.ret = "send failed"
    /\ last.transport = <<[number |-> UserNumber, text |-> "hello"]>>

Receive100 ==
    [Envelope |-> [Source |-> "+1555",
                   DataMessage |-> [Message |-> "hi", Timestamp |-> 100]]]

Receipt100 ==
    [Envelope |-> [Source |-> "+1555",
                   ReceiptMessage |-> [IsDelivery |-> TRUE, IsRead |-> TRUE,
                                       Timestamps |-> <<100>>]]]

\* the receive event {from "+1555", text "hi", ts 100} directly followed by
\* the receipt {from "+1555", delivered, read, timestamps [100]}
ReceiveThenReceipt100 ==
    /\ last.op = "onReceived" /\ last.msg = Receive100
    /\ Call("onReceipt") /\ last'.msg = Receipt100

\* C10 as stated: after that receive and that receipt, the Message with
\* timestamp 100 renders as "100|>> +1555: hi\n".
C10_RendersAsStated ==
    [][ ReceiveThenReceipt100 =>
          Message_String(mem'.Conversation[last'.conv].Messages[100])
              = "100|>> +1555: hi\n" ]_vars

\* C10 amended: after that receive and that receipt, the Message with
\* timestamp 100 renders as "100|<> +1555: hi\n" ('<' for delivered, '>' for
\* read).
C10_RendersDeliveredRead ==
    [][ ReceiveThenReceipt100 =>
          Message_String(mem'.Conversation[last'.conv].Messages[100])
              = "100|<> +1555: hi\n" ]_vars

\* the receipt has been applied to the Message received from +1555
C10_Witness ==
    /\ nEvents = 2
    /\ last.op = "onReceipt" /\ last.msg = Receipt100
    /\ LET m == mem.Conversation[last.conv].Messages
       IN  /\ DOMAIN m = {100}
           /\ m[100] = [Content |-> "hi", From |-> "+1555", Timestamp |-> 100,
                        IsDelivered |-> TRUE, IsRead |-> TRUE]

\* what an observer of the model sees, whatever the pointers are: each
\* registered number's Contact, and the Conversations of the registry, each
\* with the number of its Contact and whether that Contact is the registered one
View(w) ==
    [contacts |-> [n \in DOMAIN w.s.contacts |-> w.mem.Contact[w.s.contacts[n]]],
     conversations |->
        { [number |-> w.mem.Contact[c].Number,
           registered |-> /\ w.mem.Contact[c].Number \in DOMAIN w.s.contacts
                          /\ w.s.contacts[w.mem.Contact[c].Number] = c,
           conv |-> [w.mem.Conversation[w.s.conversations[c]] EXCEPT !.Contact = 0]]
            : c \in DOMAIN w.s.conversations },
     nConversations |-> Cardinality(DOMAIN w.s.conversations)]

\* the call goroutine t runs, run alone and to completion on w
RunAlone(w, t) ==
    CASE th[t].op = "onReceived" -> onReceived(w, th[t].msg).w
      [] th[t].op = "onReceipt" -> onReceipt(w, th[t].msg).w
      [] th[t].op = "Send" ->
            IF th[t].contact = 1 THEN Send(w, th[t].msg, 1, Nil).w
            ELSE Send([w EXCEPT !.mem.Contact =
                                   Alloc(@, mem.Contact[th[t].contact])],
                      th[t].msg, Len(w.mem.Contact) + 1, Nil).w

RECURSIVE RunInOrder(_, _)
RunInOrder(w, order) ==
    IF order = <<>> THEN w
    ELSE RunInOrder(RunAlone(w, Head(order)), Tail(order))

Orders ==
    {o \in [1..Cardinality(Threads) -> Threads] : \A i, j \in DOMAIN o : o[i] = o[j] => i = j}

\* C4: when onReceived, onReceipt and Send run concurrently and all have
\* returned, the model is in a state that the same calls, run one after
\* another in some order, produce.
C4_ConcurrentCallsSerializable ==
    (\A t \in Threads : th[t].pc = "done") =>
        \E o \in Orders : View(World) = View(RunInOrder(NewSiggo(Config), o))

\* one line of the rendering, glyph by glyph
Line(m) ==
    ToString(m.Timestamp) \o "|"
        \o (IF m.IsDelivered THEN "<" ELSE "?") \o (IF m.IsRead THEN ">" ELSE "?")
        \o " " \o m.From \o ": " \o m.Content \o "\n"

\* the lines of the first n timestamps of MessageOrder, one after another
RECURSIVE LinesUpTo(_, _)
LinesUpTo(conv, n) ==
    IF n = 0 THEN ""
    ELSE LinesUpTo(conv, n - 1) \o Line(conv.Messages[conv.MessageOrder[n]])

\* C11: a Conversation renders as its Messages' lines in MessageOrder, each
\* line timestamp|<delivery glyph><read glyph> from: content, '<' for
\* delivered, '>' for read, '?' otherwise; and after the receive event
\* {from "+1555", text "hi", ts 100} from the unknown sender the
\* Conversation renders "100|<? +1555: hi\n".
C11_ConversationRendering ==
    /\ \A c \in 1..Len(mem.Conversation) :
          Conversation_String(mem.Conversation[c])
              = LinesUpTo(mem.Conversation[c], Len(mem.Conversation[c].MessageOrder))
    /\ (nEvents = 1 /\ last.op = "onReceived" /\ last.msg = Receive100) =>
          Conversation_String(mem.Conversation[last.conv]) = "100|<? +1555: hi\n"

\* a Conversation that got 999 before 100, and a read receipt for 100,
\* renders the line of 999 first
C11_Witness ==
    \E c \in 1..Len(mem.Conversation) :
        /\ mem.Conversation[c].MessageOrder = <<999, 100>>
        /\ Conversation_String(mem.Conversation[c])
              = "999|<? +1555: hi\n100|<> +1555: hello\n"

\* a Conversation gains content: a new key, or a stored Message whose
\* Content, From or Timestamp differ
GainsContent(c) ==
    LET new == mem'.Conversation[c]
        old == IF c \in 1..Len(mem.Conversation) THEN mem.Conversation[c]
               ELSE NewConversation(new.Contact)
    IN  \E ts \in DOMAIN new.Messages :
            \/ ts \notin DOMAIN old.Messages
            \/ new.Messages[ts].Content # old.Messages[ts].Content
            \/ new.Messages[ts].From # old.Messages[ts].From

\* C12: an onReceived calls NewInfo exactly once, with the sender's
\* Conversation, after the Message is in it (the observer finds the Message
\* in the Conversation it is handed); and whenever a call makes a
\* Conversation gain content, NewInfo is called with that Conversation.
C12_NotifiedOnceAfterAdd ==
    [][ /\ Call("onReceived") =>
             LET dm == last'.msg.Envelope.DataMessage
                 conv == s'.conversations[s'.contacts[last'.msg.Envelope.Source]]
             IN  /\ Len(last'.notified) = 1
                 /\ last'.notified[1].conv = conv
                 /\ last'.notified[1].seen = mem'.Conversation[conv]
                 /\ dm.Timestamp \in DOMAIN last'.notified[1].seen.Messages
                 /\ last'.notified[1].seen.Messages[dm.Timestamp].Content = dm.Message
        /\ \A c \in 1..Len(mem'.Conversation) :
             GainsContent(c) => \E i \in 1..Len(last'.notified) : last'.notified[i].conv = c
      ]_vars

\* the observer was handed the Conversation of +1555 holding both the
\* Message stored earlier and the one just received
C12_Witness ==
    /\ last.op = "onReceived"
    /\ last.msg.Envelope.Source = "+1555"
    /\ last.msg.Envelope.DataMessage.Timestamp = 999
    /\ Len(last.notified) = 1
    /\ last.notified[1].conv = s.conversations[s.contacts["+1555"]]
    /\ DOMAIN last.notified[1].seen.Messages = {100, 999}
    /\ last.notified[1].seen.MessageOrder = <<100, 999>>

\* the identifier a call is about: the sender of an event, the number of the
\* Contact handed to Send
CallIdentifier ==
    IF last'.op = "Send" THEN mem'.Contact[last'.contact].Number
    ELSE last'.msg.Envelope.Source

\* C13: resolving a Contact and a Conversation is an idempotent upsert: a
\* call of onReceived, onReceipt or Send for an identifier the contact
\* registry already holds reuses the Contact and the Conversation
\* registered for it: neither registry grows and the Conversation the call
\* works on is the registered one, with its Messages retained.
C13_KnownIdentifierReused ==
    [][ ((Call("onReceived") \/ Call("onReceipt") \/ Call("Send"))
            /\ CallIdentifier \in DOMAIN s.contacts) =>
          /\ s'.contacts = s.contacts
          /\ s'.conversations = s.conversations
          /\ last'.conv = s.conversations[s.contacts[CallIdentifier]]
          /\ DOMAIN mem.Conversation[last'.conv].Messages
                \subseteq DOMAIN mem'.Conversation[last'.conv].Messages ]_vars

HasLocalUser(w) ==
    /\ w.s.config.UserNumber \in DOMAIN w.s.contacts
    /\ w.mem.Contact[w.s.contacts[w.s.config.UserNumber]].Number = w.s.config.UserNumber
    /\ w.s.contacts[w.s.config.UserNumber] \in DOMAIN w.s.conversations
    /\ w.mem.Conversation[w.s.conversations[w.s.contacts[w.s.config.UserNumber]]].Contact
          = w.s.contacts[w.s.config.UserNumber]

\* C14: from construction on, the contact registry holds the local user's
\* Contact under the configured number and the conversation registry a
\* Conversation for it, and no step removes or replaces an entry of either
\* registry.
C14_LocalUserKeptNoRemoval ==
    [][ /\ HasLocalUser(World)
        /\ HasLocalUser([s |-> s', mem |-> mem'])
        /\ \A n \in DOMAIN s.contacts :
              n \in DOMAIN s'.contacts /\ s'.contacts[n] = s.contacts[n]
        /\ \A c \in DOMAIN s.conversations :
              c \in DOMAIN s'.conversations /\ s'.conversations[c] = s.conversations[c]
      ]_vars

\* three calls have grown both registries and the local user's entries are
\* still the first ones
C14_Witness ==
    /\ nEvents = 3
    /\ DOMAIN s.contacts = {UserNumber, "+1555"}
    /\ s.contacts[UserNumber] = 1
    /\ Cardinality(DOMAIN s.conversations) = 3
    /\ s.conversations[1] = 1
    /\ mem.Contact[1] = [Number |-> UserNumber, Name |-> "me"]

\* C15: the From of the Message an onReceived stores is the name of the
\* Contact registered for the sender when that name is not empty, and the
\* sender's number otherwise (no Contact registered, or one with an empty
\* name); from the local user's own number it is the local Contact's name.
C15_FromIsNameOrNumber ==
    [][ Call("onReceived") =>
          LET number == last'.msg.Envelope.Source
              ts == last'.msg.Envelope.DataMessage.Timestamp
              stored == mem'.Conversation[last'.conv].Messages[ts]
              named == /\ number \in DOMAIN s.contacts
                       /\ mem.Contact[s.contacts[number]].Name # ""
          IN  /\ stored.From = IF named THEN mem.Contact[s.contacts[number]].Name
                                ELSE number
              /\ number = UserNumber => stored.From = "me" ]_vars

\* a Message received from the local user's number is stored as from "me",
\* next to one from +1555 stored under its number
C15_Witness ==
    /\ last.op = "onReceived"
    /\ last.msg.Envelope.Source = UserNumber
    /\ mem.Conversation[1].Messages[last.msg.Envelope.DataMessage.Timestamp].From = "me"
    /\ "+1555" \in DOMAIN s.contacts
    /\ \E ts \in DOMAIN mem.Conversation[s.conversations[s.contacts["+1555"]]].Messages :
          mem.Conversation[s.conversations[s.contacts["+1555"]]].Messages[ts].From = "+1555"

\* the Message stored under ts in Conversation c is read
IsReadIn(w, c, ts) ==
    /\ c \in 1..Len(w.mem.Conversation)
    /\ ts \in DOMAIN w.mem.Conversation[c].Messages
    /\ w.mem.Conversation[c].Messages[ts].IsRead

\* C16: onReceived stores its Message delivered and unread; a stored
\* Message becomes read only by an onReceipt with the read flag that names
\* its timestamp in its Conversation, and a Message that is read after a
\* call that wrote it was written by such a receipt: onReceived and Send
\* never set IsRead.
C16_ReadOnlyByReceipt ==
    [][ /\ Call("onReceived") =>
             LET m == mem'.Conversation[last'.conv].Messages[
                          last'.msg.Envelope.DataMessage.Timestamp]
             IN  m.IsDelivered /\ ~m.IsRead
        /\ \A c \in 1..Len(mem'.Conversation) :
             \A ts \in DOMAIN mem'.Conversation[c].Messages :
                (IsReadIn([s |-> s', mem |-> mem'], c, ts) /\ ~IsReadIn(World, c, ts)) =>
                    /\ Call("onReceipt")
                    /\ last'.conv = c
                    /\ last'.msg.Envelope.ReceiptMessage.IsRead
                    /\ ts \in Range(last'.msg.Envelope.ReceiptMessage.Timestamps)
      ]_vars

\* a read receipt naming 100 and 999 has marked both read
C16_Witness ==
    /\ last.op = "onReceipt"
    /\ last.msg.Envelope.ReceiptMessage.Timestamps = <<100, 999>>
    /\ last.msg.Envelope.ReceiptMessage.IsRead
    /\ IsReadIn(World, last.conv, 100)
    /\ IsReadIn(World, last.conv, 999)

\* C17: an onReceipt never calls NewInfo and never changes a Conversation's
\* HasNewMessage, whether its timestamps are present or not and whether the
\* sender was known or not (the Conversation it creates has the flag down).
C17_ReceiptSilent ==
    [][ Call("onReceipt") =>
          /\ last'.notified = <<>>
          /\ \A c \in 1..Len(mem'.Conversation) :
                mem'.Conversation[c].HasNewMessage =
                    IF c \in 1..Len(mem.Conversation)
                    THEN mem.Conversation[c].HasNewMessage
                    ELSE FALSE ]_vars

\* a receipt has changed the status of a Message of +1555 while the local
\* user's Conversation, empty, still has its flag down
C17_Witness ==
    /\ last.op = "onReceipt"
    /\ last.notified = <<>>
    /\ last.msg.Envelope.Source = "+1555"
    /\ last.msg.Envelope.ReceiptMessage.Timestamps = <<999>>
    /\ ~last.msg.Envelope.ReceiptMessage.IsDelivery
    /\ 999 \in DOMAIN mem.Conversation[last.conv].Messages
    /\ ~mem.Conversation[last.conv].Messages[999].IsDelivered
    /\ mem.Conversation[last.conv].HasNewMessage
    /\ ~mem.Conversation[1].HasNewMessage

\* C18: in every Conversation the Message stored under the key ts has
\* Timestamp ts, so a receipt for ts reaches the Message whose timestamp is
\* ts and no other.
C18_KeyIsTimestamp ==
    \A c \in 1..Len(mem.Conversation) :
        \A ts \in DOMAIN mem.Conversation[c].Messages :
            mem.Conversation[c].Messages[ts].Timestamp = ts

\* a Conversation holding the Messages of timestamps 999 and 100 under
\* their timestamps, 999 rewritten by a second onReceived
C18_Witness ==
    /\ last.op = "onReceived"
    /\ added[last.conv] = <<999, 100, 999>>
    /\ mem.Conversation[last.conv].Messages[999].Timestamp = 999
    /\ mem.Conversation[last.conv].Messages[100].Timestamp = 100

\* C19: a Conversation of the model has HasNewMessage up exactly when its
\* MessageOrder is not empty, and no call of the model takes the flag down.
C19_FlagIffMessages ==
    [][ \A c \in 1..Len(mem'.Conversation) :
          /\ mem'.Conversation[c].HasNewMessage = (mem'.Conversation[c].MessageOrder # <<>>)
          /\ c \in 1..Len(mem.Conversation) =>
                /\ mem.Conversation[c].HasNewMessage = (mem.Conversation[c].MessageOrder # <<>>)
                /\ mem.Conversation[c].HasNewMessage => mem'.Conversation[c].HasNewMessage
      ]_vars

\* the Conversation of +1555 has a Message and its flag up, the local
\* user's is empty with its flag down, and a Send has just run on it
C19_Witness ==
    /\ last.op = "Send"
    /\ last.conv = 1
    /\ mem.Conversation[1].MessageOrder = <<>>
    /\ ~mem.Conversation[1].HasNewMessage
    /\ Len(mem.Conversation) = 2
    /\ mem.Conversation[2].MessageOrder = <<100>>
    /\ mem.Conversation[2].HasNewMessage

\* the call before this step was a receipt that named ts for the sender
ReceiptBefore(number, ts) ==
    /\ last.op = "onReceipt"
    /\ last.msg.Envelope.Source = number
    /\ ts \in Range(last.msg.Envelope.ReceiptMessage.Timestamps)

\* the call before this step was a receive of ts from the sender
ReceiveBefore(number, ts) ==
    /\ last.op = "onReceived"
    /\ last.msg.Envelope.Source = number
    /\ last.msg.Envelope.DataMessage.Timestamp = ts

\* C20: an onReceived whose timestamp is already in the sender's
\* Conversation stores the Message delivered and unread whatever flags a
\* receipt had set, keeps MessageOrder, and calls NewInfo; so a receipt
\* followed by a receive of the same timestamp ends delivered and unread,
\* and a receive followed by a receipt ends with the receipt's flags.
C20_ReceiveOverwritesStatus ==
    [][ /\ Call("onReceived") =>
             LET number == last'.msg.Envelope.Source
                 ts == last'.msg.Envelope.DataMessage.Timestamp
                 new == mem'.Conversation[last'.conv]
             IN  /\ (/\ last'.conv \in 1..Len(mem.Conversation)
                      /\ ts \in DOMAIN mem.Conversation[last'.conv].Messages) =>
                        /\ new.Messages[ts].IsDelivered /\ ~new.Messages[ts].IsRead
                        /\ new.Messages[ts].Content = last'.msg.Envelope.DataMessage.Message
                        /\ new.MessageOrder = mem.Conversation[last'.conv].MessageOrder
                        /\ Len(last'.notified) = 1 /\ last'.notified[1].conv = last'.conv
                 /\ ReceiptBefore(number, ts) =>
                        new.Messages[ts].IsDelivered /\ ~new.Messages[ts].IsRead
        /\ Call("onReceipt") =>
             \A ts \in Range(last'.msg.Envelope.ReceiptMessage.Timestamps) :
                ReceiveBefore(last'.msg.Envelope.Source, ts) =>
                    LET m == mem'.Conversation[last'.conv].Messages[ts]
                        receiptMsg == last'.msg.Envelope.ReceiptMessage
                    IN  /\ m.IsDelivered = receiptMsg.IsDelivery
                        /\ m.IsRead = receiptMsg.IsRead
      ]_vars

\* 100 was received, marked read and not delivered by a receipt, and
\* received again: it is delivered and unread, and still first in order
C20_Witness ==
    /\ nEvents = 3
    /\ last.op = "onReceived"
    /\ last.msg.Envelope.DataMessage.Timestamp = 100
    /\ added[last.conv] = <<100, 100>>
    /\ mem.Conversation[last.conv].MessageOrder = <<100>>
    /\ mem.Conversation[last.conv].Messages[100].IsDelivered
    /\ ~mem.Conversation[last.conv].Messages[100].IsRead
    /\ Len(last.notified) = 1

====
